---------------------------- MODULE Spec2Model ----------------------------
(***************************************************************************)
(* A model of the MemoryAllocation pass of ONNC                            *)
(* (src/src/lib/Analysis/MemoryAllocation.cpp): size gathering, Load/Store *)
(* insertion and the liveness-aware first-fit offset allocator.            *)
(*                                                                         *)
(* One run of MemoryAllocation::runOnModule is a chain of steps, one per   *)
(* loop iteration of the handler, sequenced by pc; between two runs pc is  *)
(* "idle".  A step that executes undefined behaviour (a splice before a    *)
(* null node) chooses between the outcomes a build can produce.            *)
(***************************************************************************)
EXTENDS Integers, Sequences, FiniteSets, TLC

VARIABLES
  m_DLATB,         \* the backend handle given to the constructor (or NullBackend)
  memSize,         \* the backend's size oracle, by shape/type metadata
  graph,           \* the onnx::Graph of the module
  entryGraph,      \* the graph as the current run found it
  m_MemAllocList,  \* the pass's allocation entries
  m_SplitInfos,    \* the table of tryToSplitGraph's SplitNodeManager
  pc,              \* position inside runOnModule
  livesInfo,       \* liveAnaly->getLiveIntervals() of the current run
  valMemSMap,      \* local valMemSMap of the current run
  idx,             \* index of the running loop (inputs, outputs, intervals)
  maxSize,         \* local maxSize
  minSize,         \* local minSize
  ret,             \* what the last finished run returned
  summary,         \* the last "Size req." line written to outs()
  errLog,          \* number of lines written to errs()
  runs,            \* number of runs started
  callStack,       \* the calls of splitNodeBySize in progress: n, newOutSize and the loop's i
  newInS           \* local newInS of the splitNodeBySize call that ran last

vars == <<m_DLATB, memSize, graph, entryGraph, m_MemAllocList, m_SplitInfos, pc, livesInfo, valMemSMap,
          idx, maxSize, minSize, ret, summary, errLog, runs, callStack, newInS>>

---------------------------------------------------------------------------
(* Bounds of the model *)

\* width of `unsigned`, scaled down from 32 bits
UIntBits == 3
\* nodes the frontend put in the graph
MaxNodes == 2
\* live intervals the liveness oracle supplies to one run (allocator runs)
MaxIntervals == 4
\* live intervals supplied to one run when the graph is varied
GraphIntervals == 1
\* schedule points: live intervals lie inside [0, MaxTime]
MaxTime == 2
\* runs of the pass on one module
MaxRuns == 2
\* runs of the pass on one module in the allocator runs
AllocRuns == 1
\* live intervals per run when runs are repeated
RunIntervals == 2

UIntMod == 2 ^ UIntBits
\* size_t and uint64_t are twice as wide as unsigned
SizeTMod == UIntMod * UIntMod

Null == 0
NullBackend == [present |-> FALSE, localMemSize |-> 0]

\* values the frontend created: 1 and NumValues have no producer, node k
\* produces value k + 1
NumValues == MaxNodes + 2

Max(a, b) == IF a >= b THEN a ELSE b
Min(a, b) == IF a <= b THEN a ELSE b

RECURSIVE SeqSum(_)
SeqSum(s) == IF s = <<>> THEN 0 ELSE Head(s) + SeqSum(Tail(s))

\* the elements of a finite set of integers, ascending
RECURSIVE SetToSeq(_)
SetToSeq(S) ==
  IF S = {} THEN <<>>
  ELSE LET m == CHOOSE x \in S : \A y \in S : x <= y
       IN <<m>> \o SetToSeq(S \ {m})

Range(s) == {s[i] : i \in 1..Len(s)}

---------------------------------------------------------------------------
(* Integer conversions *)

\* conversion of a wider integer to `unsigned`
ToUnsigned(x) == x % UIntMod

\* arithmetic in size_t
ToSizeT(x) == x % SizeTMod

---------------------------------------------------------------------------
(* The graph: onnx::Graph as the pass uses it.  Nodes and values are       *)
(* numbered in creation order; kind, ins and outs are indexed by node,     *)
(* meta by value (the value whose element type and byte size it carries),  *)
(* dims by value (its shape), order is the node list in program order,     *)
(* inputs and outputs are the graph's own.                                 *)

g_LoadKind == "Load"
g_StoreKind == "Store"
kUndefined == "Undefined"

\* kinds the frontend emits
NodeKinds == {kUndefined, "Relu"}

\* the input lists node k may have: values made before it, and the value
\* NumValues beside the latest of them
NodeInputs(k) ==
  {<<>>} \cup {<<v>> : v \in 1..k} \cup {<<k, NumValues>>}
         \cup (IF k > 1 THEN {<<1, k>>} ELSE {})

GraphInputs == {<<>>, <<1>>, <<1, NumValues>>}

GraphOutputs(n) == {<<>>} \cup {<<v>> : v \in 1..(n + 1)} \cup {<<1, n + 1>>}

\* the shape the frontend gave every value
ValueShape == <<3, 2>>

\* the attribute bag of a node: kernel_shape, strides, pads (begin and end
\* halves), transA, transB; all empty or unset for a node without them
NoAttr == [kernel_shape |-> <<>>, strides |-> <<>>, padBegin |-> <<>>,
           padEnd |-> <<>>, transA |-> FALSE, transB |-> FALSE]

MkGraph(kinds, ins, gi, go) ==
  [kind    |-> kinds,
   ins     |-> ins,
   outs    |-> [k \in DOMAIN kinds |-> <<k + 1>>],
   order   |-> [k \in DOMAIN kinds |-> k],
   inputs  |-> gi,
   outputs |-> go,
   meta    |-> [v \in 1..NumValues |-> v],
   dims    |-> [v \in 1..NumValues |-> ValueShape],
   attr    |-> [k \in DOMAIN kinds |-> NoAttr]]

\* every value a node reads or the graph returns is a graph input or the
\* output of a node
Defined(ins, gi, go) ==
  (UNION {{ins[k][i] : i \in DOMAIN ins[k]} : k \in DOMAIN ins}
     \cup {go[i] : i \in DOMAIN go}) \cap {1, NumValues}
    \subseteq {gi[i] : i \in DOMAIN gi}

GraphsOf(n) ==
  {MkGraph(kinds, ins, gi, go) :
     kinds \in [1..n -> NodeKinds],
     ins \in {f \in [1..n -> UNION {NodeInputs(k) : k \in 1..n}] :
                \A k \in 1..n : f[k] \in NodeInputs(k)},
     gi \in GraphInputs,
     go \in GraphOutputs(n)}

WellFormedGraphsOf(n) ==
  {g \in GraphsOf(n) : Defined(g.ins, g.inputs, g.outputs)}

Graphs == UNION {WellFormedGraphsOf(n) : n \in 1..MaxNodes}

\* position of node n in program order, 0 for a node that is in no list
RECURSIVE PosFrom(_, _, _)
PosFrom(order, n, i) ==
  IF i > Len(order) THEN 0
  ELSE IF order[i] = n THEN i ELSE PosFrom(order, n, i + 1)

Pos(g, n) == PosFrom(g.order, n, 1)

inGraphList(g, n) == n # Null /\ Pos(g, n) # 0

\* Node::isBefore
isBefore(g, a, b) == Pos(g, a) < Pos(g, b)

\* Value::uses(): the users of v, one per use, in creation order
RECURSIVE UsesFrom(_, _, _, _)
UsesFrom(g, v, n, i) ==
  IF n > Len(g.kind) THEN <<>>
  ELSE IF i > Len(g.ins[n]) THEN UsesFrom(g, v, n + 1, 1)
  ELSE (IF g.ins[n][i] = v THEN <<n>> ELSE <<>>) \o UsesFrom(g, v, n, i + 1)

Uses(g, v) == UsesFrom(g, v, 1, 1)

\* the orders in which iterating v->uses() may give the users
UseOrders(g, v) ==
  LET us == Uses(g, v)
  IN {[k \in 1..Len(us) |-> us[p[k]]] :
        p \in {q \in [1..Len(us) -> 1..Len(us)] :
                 \A i, j \in 1..Len(us) : i # j => q[i] # q[j]}}

\* Graph::create: a node of the kind with the inputs and nOut fresh outputs,
\* in no list yet
Create(g, kind, ins, nOut) ==
  LET n == Len(g.kind) + 1
      w == Len(g.meta)
  IN [g EXCEPT !.kind = Append(@, kind),
               !.ins  = Append(@, ins),
               !.outs = Append(@, [k \in 1..nOut |-> w + k]),
               !.meta = @ \o [k \in 1..nOut |-> 0],
               !.dims = @ \o [k \in 1..nOut |-> <<>>],
               !.attr = Append(@, NoAttr)]

\* Node::insertBefore on an anchor that is in the graph's list
insertBefore(g, n, anchor) ==
  LET p == Pos(g, anchor)
  IN [g EXCEPT !.order = SubSeq(@, 1, p - 1) \o <<n>> \o SubSeq(@, p, Len(@))]

\* Value::copyMetadata
copyMetadata(g, w, v) ==
  [g EXCEPT !.meta[w] = g.meta[v], !.dims[w] = g.dims[v]]

\* Value::replaceAllUsesWith
replaceAllUsesWith(g, v, w) ==
  [g EXCEPT !.ins = [n \in DOMAIN @ |->
                       [i \in DOMAIN @[n] |-> IF @[n][i] = v THEN w ELSE @[n][i]]]]

\* nodes of a kind in the graph's list
NodesOfKind(g, kind) == {n \in Range(g.order) : g.kind[n] = kind}

\* TargetMemInfo::getValueMemorySize(v).size
ValueMemorySize(g, oracle, v) ==
  IF g.meta[v] = 0 THEN 0 ELSE oracle[g.meta[v]]

---------------------------------------------------------------------------
(* GetMemoryUsageForAllValues *)

\* the values the loop visits: inputs and outputs of the non-undefined nodes
VisitedValues(g) ==
  UNION {Range(g.ins[n]) \cup Range(g.outs[n]) :
           n \in {m \in Range(g.order) : g.kind[m] # kUndefined}}

GetMemoryUsageForAllValues(g, oracle) ==
  [v \in VisitedValues(g) |-> ValueMemorySize(g, oracle, v)]

\* valMemSMap[v].size: operator[] makes a zero MemSize for a missing key
MapSize(map, v) == IF v \in DOMAIN map THEN map[v] ELSE 0

\* the loop "maxSize += req.second.size" over the map, in `unsigned`
RECURSIVE SumUnsigned(_, _)
SumUnsigned(sizes, acc) ==
  IF sizes = <<>> THEN acc
  ELSE SumUnsigned(Tail(sizes), ToUnsigned(acc + Head(sizes)))

MaxSizeOf(map) ==
  SumUnsigned([k \in 1..Cardinality(DOMAIN map) |->
                 map[SetToSeq(DOMAIN map)[k]]], 0)

---------------------------------------------------------------------------
(* InsertLoadStoreNode: the selection loops *)

\* the use met first in the iteration, whatever its place in the program
FirstUserMet(g, us, first) == IF us = <<>> THEN first ELSE Head(us)

\* the loop of lines 377-385 over the use list
RECURSIVE FirstUser(_, _, _)
FirstUser(g, us, first) ==
  IF us = <<>> THEN first
  ELSE LET u == Head(us)
       IN FirstUser(g, Tail(us),
                    IF first = Null THEN u
                    ELSE IF ~isBefore(g, first, u) THEN u ELSE first)

\* the loop of lines 396-404 over the use list
RECURSIVE LastUser(_, _, _)
LastUser(g, us, last) ==
  IF us = <<>> THEN last
  ELSE LET u == Head(us)
       IN LastUser(g, Tail(us),
                   IF last = Null THEN u
                   ELSE IF isBefore(g, last, u) THEN u ELSE last)

\* lines 388-391 with the Load created and spliced before `first`
LoadInserted(g, v, first) ==
  LET g1 == Create(g, g_LoadKind, <<>>, 1)
      loadN == Len(g1.kind)
      out == g1.outs[loadN][1]
  IN replaceAllUsesWith(copyMetadata(insertBefore(g1, loadN, first), out, v),
                        v, out)

\* lines 388-391 when the splice has no effect
LoadUnspliced(g, v) ==
  LET g1 == Create(g, g_LoadKind, <<>>, 1)
      loadN == Len(g1.kind)
      out == g1.outs[loadN][1]
  IN replaceAllUsesWith(copyMetadata(g1, out, v), v, out)

\* lines 407-408 with the Store created and spliced before `last`
StoreInserted(g, v, last) ==
  LET g1 == Create(g, g_StoreKind, <<v>>, 0)
  IN insertBefore(g1, Len(g1.kind), last)

---------------------------------------------------------------------------
(* The offset allocator *)

\* LiveInterval::intersect, on half-open [start, end)
Intersect(a, b) == ~(a.end <= b.start \/ b.end <= a.start)

\* the regions of the entries live together with pIntrvl, in list order
RECURSIVE UsedRegions(_, _)
UsedRegions(pAllocs, pIntrvl) ==
  IF pAllocs = <<>> THEN <<>>
  ELSE LET entry == Head(pAllocs)
       IN (IF ~Intersect(entry.liveIntrvl, pIntrvl) THEN <<>>
           ELSE <<[start |-> entry.startAddr, size |-> entry.size]>>)
          \o UsedRegions(Tail(pAllocs), pIntrvl)

\* the orders std::sort may leave: ascending start, ties in any order
SortOrders(n) == {p \in [1..n -> 1..n] : \A i, j \in 1..n : i # j => p[i] # p[j]}

SortedByStart(regions) ==
  {[k \in 1..Len(regions) |-> regions[p[k]]] :
     p \in {q \in SortOrders(Len(regions)) :
              \A i, j \in 1..Len(regions) :
                i < j => ~(regions[q[j]].start < regions[q[i]].start)}}

GetUsedMemRegions(pAllocs, pIntrvl) == SortedByStart(UsedRegions(pAllocs, pIntrvl))

HasConflict(pStartA, pSizeA, pStartB, pSizeB) ==
  LET endA == ToSizeT(pStartA + pSizeA)
      endB == ToSizeT(pStartB + pSizeB)
  IN ~(endA <= pStartB \/ endB <= pStartA)

\* the scan of lines 499-503, startAddr an `unsigned`
RECURSIVE ScanConflicts(_, _, _)
ScanConflicts(conflicts, startAddr, required) ==
  IF conflicts = <<>> THEN startAddr
  ELSE LET reg == Head(conflicts)
       IN IF ~HasConflict(reg.start, reg.size, startAddr, required)
          THEN startAddr
          ELSE ScanConflicts(Tail(conflicts), ToUnsigned(reg.start + reg.size),
                             required)

\* "unsigned required = valMemSMap[v].size"
Required(map, li) == ToUnsigned(MapSize(map, li.value))

\* MemAllocEntry(startAddr, required, *li)
MemAllocEntry(startAddr, required, li) ==
  [startAddr |-> startAddr, size |-> required, liveIntrvl |-> li]

\* "minSize = std::max(minSize, startAddr + required)" in `unsigned`
NewMinSize(old, startAddr, required) == Max(old, ToUnsigned(startAddr + required))

clearKeeps(list) == list

\* MemoryAllocation::clear
clear(list) == <<>>

---------------------------------------------------------------------------
(* The split-node model and the tiling driver *)

\* the registry of kinds whose input size is their output size
g_InputSizeIsOutputSize == {"Relu", "Sigmoid", "LRN", "BatchNormalization"}

NullSplit == [rule |-> "null", m_OutSizes |-> <<>>, m_NewOutSizes |-> <<>>]

\* SplitNode::SplitNode: the sizes of the node's first output
SplitNode(g, n, rule) ==
  LET sizes == IF g.outs[n] = <<>> THEN <<>> ELSE g.dims[g.outs[n][1]]
  IN [rule |-> rule, m_Node |-> n, m_OutSizes |-> sizes, m_NewOutSizes |-> sizes,
      m_KShape |-> <<>>, m_Stride |-> <<>>, m_PadBegin |-> <<>>, m_PadEnd |-> <<>>]

\* SplitConv::SplitConv and the constructor of SplitMaxPool: the base
\* descriptor and the kernel shape, strides and pads of the node
SplitConv(g, n, rule) ==
  [SplitNode(g, n, rule) EXCEPT !.m_KShape = g.attr[n].kernel_shape,
                                !.m_Stride = g.attr[n].strides,
                                !.m_PadBegin = g.attr[n].padBegin,
                                !.m_PadEnd = g.attr[n].padEnd]

\* the rule SplitNodeCreator builds for a kind, "null" past the assert
SplitRuleOf(kind) ==
  IF kind \in g_InputSizeIsOutputSize THEN "SplitNode"
  ELSE IF kind = "Conv" THEN "SplitConv"
  ELSE IF kind = "MaxPool" THEN "SplitMaxPool"
  ELSE IF kind = "Gemm" THEN "SplitGemm"
  ELSE IF kind = "Reshape" THEN "SplitReshape"
  ELSE "null"

SplitNodeCreator(g, n) ==
  LET rule == SplitRuleOf(g.kind[n])
  IN IF rule = "null" THEN NullSplit
     ELSE IF rule \in {"SplitConv", "SplitMaxPool"} THEN SplitConv(g, n, rule)
     ELSE SplitNode(g, n, rule)

\* the nodes SplitNodeManager's constructor visits
SplitDomain(g) == {n \in Range(g.order) : g.kind[n] # kUndefined}

\* SplitNodeManager::SplitNodeManager, every assert compiled out
SplitNodeManager(g) == [n \in SplitDomain(g) |-> SplitNodeCreator(g, n)]

\* a node the constructor cannot build a rule for
HasUnsupported(g) == \E n \in SplitDomain(g) : SplitRuleOf(g.kind[n]) = "null"

\* Value::node(): the producer of v, Null when no node made it
Producer(g, v) ==
  IF \E n \in 1..Len(g.kind) : v \in Range(g.outs[n])
  THEN CHOOSE n \in 1..Len(g.kind) : v \in Range(g.outs[n])
  ELSE Null

\* getSplitNode(n) gives a descriptor that can be used
Usable(infos, n) == n \in DOMAIN infos /\ infos[n] # NullSplit

\* SplitNode::useNewOutSize
useNewOutSize(ns, pNewOutSize) == [ns EXCEPT !.m_NewOutSizes = pNewOutSize]

\* m_Node.inputs()[k]->sizes(), k counted from 0
InputSizes(g, ns, k) == g.dims[g.ins[ns.m_Node][k + 1]]

\* the spatial formula of lines 201-202 and 297-298, axis i counted from 0
SpatialIn(ns, i) ==
  (ns.m_NewOutSizes[i + 3] - 1) * ns.m_Stride[i + 1]
    - ns.m_PadBegin[i + 1] - ns.m_PadEnd[i + 1] + ns.m_KShape[i + 1]

\* the loops of lines 195-204 and 291-300 over "LongInts newIS(4)": four
\* elements, zero where the loop does not write
SpatialTile(ns, first, second, numAxis) ==
  [j \in 1..4 |-> IF j = 1 THEN first
                  ELSE IF j = 2 THEN second
                  ELSE IF j - 2 <= numAxis THEN SpatialIn(ns, j - 3)
                  ELSE 0]

\* the loop reads or writes past the end of a vector: newIS has 4 elements,
\* the new sizes and the attributes need numAxis elements after their head
SpatialOutOfRange(g, ns) ==
  \/ g.ins[ns.m_Node] = <<>>
  \/ LET numAxis == Len(InputSizes(g, ns, 0)) - 2
     IN \/ numAxis < 0
        \/ numAxis > 2
        \/ Len(ns.m_NewOutSizes) < numAxis + 2
        \/ Len(ns.m_Stride) < numAxis
        \/ Len(ns.m_PadBegin) < numAxis
        \/ Len(ns.m_PadEnd) < numAxis
        \/ Len(ns.m_KShape) < numAxis

\* SplitConv::calNewInputSize where every access is in range
SplitConv_calNewInputSize(g, ns, pIdx) ==
  IF pIdx = 0
  THEN LET xDim == InputSizes(g, ns, 0)
       IN SpatialTile(ns, ns.m_NewOutSizes[1], xDim[2], Len(xDim) - 2)
  ELSE IF pIdx = 1
  THEN LET wDim == InputSizes(g, ns, 1)
       IN [j \in 1..Len(wDim) |-> IF j = 1 THEN ns.m_NewOutSizes[2] ELSE wDim[j]]
  ELSE IF pIdx = 2 THEN <<ns.m_NewOutSizes[2]>>
  ELSE <<>>

\* IsTranspose(m_Node, ktransA) and the K of lines 247-249
GemmK(g, ns) ==
  LET aDim == InputSizes(g, ns, 0)
  IN IF g.attr[ns.m_Node].transA THEN aDim[1] ELSE aDim[2]

\* SplitGemm::calNewInputSize where every access is in range
SplitGemm_calNewInputSize(g, ns, pIdx) ==
  IF pIdx = 0
  THEN IF g.attr[ns.m_Node].transA THEN <<GemmK(g, ns), ns.m_NewOutSizes[1]>>
       ELSE <<ns.m_NewOutSizes[1], GemmK(g, ns)>>
  ELSE IF pIdx = 1
  THEN IF g.attr[ns.m_Node].transB THEN <<ns.m_NewOutSizes[2], GemmK(g, ns)>>
       ELSE <<GemmK(g, ns), ns.m_NewOutSizes[2]>>
  ELSE IF pIdx = 2
  THEN LET Cdim == InputSizes(g, ns, 2) IN <<Cdim[1], Cdim[2]>>
  ELSE <<>>

\* SplitMaxPool::calNewInputSize where every access is in range
SplitMaxPool_calNewInputSize(g, ns, pIdx) ==
  SpatialTile(ns, ns.m_NewOutSizes[1], ns.m_NewOutSizes[2],
              Len(InputSizes(g, ns, 0)) - 2)

\* the call fails an assert: an input index the rule does not know
AssertFails(ns, pIdx) ==
  \/ ns.rule \in {"SplitConv", "SplitGemm"} /\ pIdx > 2
  \/ ns.rule = "SplitMaxPool" /\ pIdx # 0

\* the call reads or writes past the end of a vector
OutOfRange(g, ns, pIdx) ==
  \/ /\ ns.rule = "SplitConv"
     /\ \/ pIdx = 0 /\ SpatialOutOfRange(g, ns)
        \/ pIdx = 1 /\ (Len(g.ins[ns.m_Node]) < 2 \/ Len(ns.m_NewOutSizes) < 2
                         \/ InputSizes(g, ns, 1) = <<>>)
        \/ pIdx = 2 /\ Len(ns.m_NewOutSizes) < 2
  \/ /\ ns.rule = "SplitGemm"
     /\ \/ g.ins[ns.m_Node] = <<>>
        \/ Len(InputSizes(g, ns, 0)) < 2
        \/ pIdx = 0 /\ Len(ns.m_NewOutSizes) < 1
        \/ pIdx = 1 /\ Len(ns.m_NewOutSizes) < 2
        \/ pIdx = 2 /\ (Len(g.ins[ns.m_Node]) < 3 \/ Len(InputSizes(g, ns, 2)) < 2)
  \/ /\ ns.rule = "SplitMaxPool"
     /\ (SpatialOutOfRange(g, ns) \/ Len(ns.m_NewOutSizes) < 2)

\* SplitNode::calNewInputSize and its overrides, where every access is in
\* range (with the asserts compiled out where one fails)
calNewInputSize(g, ns, pIdx) ==
  IF ns.rule = "SplitConv" THEN SplitConv_calNewInputSize(g, ns, pIdx)
  ELSE IF ns.rule = "SplitGemm" THEN SplitGemm_calNewInputSize(g, ns, pIdx)
  ELSE IF ns.rule = "SplitMaxPool" THEN SplitMaxPool_calNewInputSize(g, ns, pIdx)
  ELSE ns.m_NewOutSizes

\* SplitNodeManager::splitNodeBySize with updateUpper = true, as one
\* step.  The result is the table and whether the call left defined
\* behaviour: a descriptor that does not exist was used, an assert failed
\* or a vector was accessed out of range.
RECURSIVE splitNodeBySize(_, _, _, _)
RECURSIVE SplitInputs(_, _, _, _)
SplitInputs(g, st, n, i) ==
  IF st.fault \/ i > Len(g.ins[n]) THEN st
  ELSE LET child == Producer(g, g.ins[n][i])
       IN IF child = Null THEN SplitInputs(g, st, n, i + 1)
          ELSE IF ~Usable(st.infos, child) THEN [st EXCEPT !.fault = TRUE]
          ELSE IF AssertFails(st.infos[child], i - 1)
                  \/ OutOfRange(g, st.infos[child], i - 1)
          THEN [st EXCEPT !.fault = TRUE]
          ELSE SplitInputs(g,
                 splitNodeBySize(g, st, child,
                                 calNewInputSize(g, st.infos[child], i - 1)),
                 n, i + 1)

splitNodeBySize(g, st, n, newOutSize) ==
  IF ~Usable(st.infos, n) THEN [st EXCEPT !.fault = TRUE]
  ELSE SplitInputs(g,
         [st EXCEPT !.infos[n] = useNewOutSize(@, newOutSize)], n, 1)

\* ceil(dim / pFactor) on axis pAxis (0-based) of the original sizes
FactoredSize(sizes, pAxis, pFactor) ==
  [k \in DOMAIN sizes |->
     IF k = pAxis + 1 THEN (sizes[k] + pFactor - 1) \div pFactor ELSE sizes[k]]

\* SplitNodeManager::splitNodeByFactor with updateUpper = true
splitNodeByFactor(g, infos, n, pAxis, pFactor) ==
  IF ~Usable(infos, n) THEN [infos |-> infos, fault |-> TRUE]
  ELSE splitNodeBySize(g, [infos |-> infos, fault |-> FALSE], n,
                       FactoredSize(infos[n].m_OutSizes, pAxis, pFactor))

---------------------------------------------------------------------------
(* What the collaborators supply *)

\* device local memory, in bytes
LocalMemSize == 1

Backends == {NullBackend, [present |-> TRUE, localMemSize |-> LocalMemSize]}

\* sizes the size oracle reports
AllocSizes == {0, 3, UIntMod + 1}
GraphSizes == {2, UIntMod + 1}

\* size oracles: any sizes per value for the allocator runs, one size for
\* all values when the graph is varied
AllocOracles == [1..NumValues -> AllocSizes]
GraphOracles == {[v \in 1..NumValues |-> s] : s \in GraphSizes}

LiveRanges(T) == {r \in [start : 0..T, end : 0..T] : r.start < r.end}

\* lists of at most n intervals for the values after value o, the k-th for
\* value o + k, in any order of start
LiveListsFrom(o, n, T) ==
  UNION {{[k \in 1..len |->
             [value |-> o + k, start |-> r[k].start, end |-> r[k].end]] :
            r \in [1..len -> LiveRanges(T)]} :
         len \in 0..Min(n, NumValues - o)}

LiveLists(n, T) == LiveListsFrom(0, n, T)

\* the lists supplied when the graph is varied: from value 1 or from value 2
GraphLiveLists == LiveLists(GraphIntervals, MaxTime)
                    \cup LiveListsFrom(1, GraphIntervals, MaxTime)

\* the graphs the allocator is exercised on, the nodes in a chain: values 1
\* and NumValues the graph's inputs and the first node reading one or both;
\* value 1 also returned, beside the last node's output; or no graph inputs
AllocGraphs ==
  {g \in WellFormedGraphsOf(MaxNodes) :
     /\ \A k \in 2..MaxNodes : g.ins[k] = <<k>> /\ g.kind[k] # kUndefined
     /\ \/ /\ g.ins[1] \in {<<1>>, <<1, NumValues>>}
           /\ g.inputs = <<1, NumValues>>
           /\ g.outputs = <<MaxNodes>>
        \/ /\ g.kind[1] # kUndefined
           /\ g.ins[1] = <<1, NumValues>>
           /\ g.inputs = <<1, NumValues>>
           /\ g.outputs = <<1, MaxNodes + 1>>
        \/ /\ g.kind[1] # kUndefined
           /\ g.ins[1] = <<>>
           /\ g.inputs = <<>>
           /\ g.outputs \in {<<>>, <<MaxNodes>>}}

---------------------------------------------------------------------------
(* MemoryAllocation::runOnModule *)

NoSplitInfos == [n \in {} |-> NullSplit]

NoSummary == [min |-> -1, max |-> -1]

InitWith(graphs, oracles) ==
  /\ m_DLATB \in Backends
  /\ memSize \in oracles
  /\ graph \in graphs
  /\ entryGraph = graph
  /\ m_MemAllocList = <<>>
  /\ m_SplitInfos = NoSplitInfos
  /\ pc = "idle"
  /\ livesInfo = <<>>
  /\ valMemSMap = <<>>
  /\ idx = 0
  /\ maxSize = 0
  /\ minSize = 0
  /\ ret = "none"
  /\ summary = NoSummary
  /\ errLog = 0
  /\ runs = 0
  /\ callStack = <<>>
  /\ newInS = <<>>

MissingBackendNever(pDLATB) == FALSE

\* line 466
MissingBackend(pDLATB) == pDLATB = NullBackend

\* where the run goes after its i-th loop is done (1: Load, 2: Store)
PhaseAfter(g, phase) ==
  IF phase < 1 /\ g.inputs # <<>> THEN "load"
  ELSE IF phase < 2 /\ g.outputs # <<>> THEN "store"
  ELSE "sum"

\* lines 466-469: no backend
RunFail(maxRuns) ==
  /\ pc = "idle"
  /\ runs < maxRuns
  /\ MissingBackend(m_DLATB)
  /\ errLog' = errLog + 1
  /\ ret' = "kPassFailure"
  /\ runs' = runs + 1
  /\ UNCHANGED <<callStack, newInS>>
  /\ UNCHANGED <<entryGraph, m_SplitInfos, m_DLATB, memSize, graph, m_MemAllocList, pc, livesInfo,
                 valMemSMap, idx, maxSize, minSize, summary>>

\* lines 471-477: clear, fetch the liveness result, gather the sizes
Begin(lists, maxRuns) ==
  /\ pc = "idle"
  /\ runs < maxRuns
  /\ ~MissingBackend(m_DLATB)
  /\ \E li \in lists : livesInfo' = li
  /\ entryGraph' = graph
  /\ m_MemAllocList' = clear(m_MemAllocList)
  /\ valMemSMap' = GetMemoryUsageForAllValues(graph, memSize)
  /\ pc' = PhaseAfter(graph, 0)
  /\ idx' = 1
  /\ maxSize' = 0
  /\ minSize' = 0
  /\ runs' = runs + 1
  /\ UNCHANGED <<callStack, newInS>>
  /\ UNCHANGED <<m_SplitInfos, m_DLATB, memSize, graph, ret, summary, errLog>>

\* lines 375-392, one graph input
InsertLoad ==
  /\ pc = "load"
  /\ \E us \in UseOrders(graph, graph.inputs[idx]) :
     LET v == graph.inputs[idx]
         first == FirstUser(graph, us, Null)
         more == idx < Len(graph.inputs)
     IN \/ /\ inGraphList(graph, first)
           /\ graph' = LoadInserted(graph, v, first)
           /\ pc' = IF more THEN "load" ELSE PhaseAfter(graph, 1)
           /\ idx' = IF more THEN idx + 1 ELSE 1
        \/ \* insertBefore(nullptr): the process dies in the call
           /\ ~inGraphList(graph, first)
           /\ graph' = Create(graph, g_LoadKind, <<>>, 1)
           /\ pc' = "crashedLoad"
           /\ idx' = idx
        \/ \* insertBefore(nullptr): the call has no effect
           /\ ~inGraphList(graph, first)
           /\ graph' = LoadUnspliced(graph, v)
           /\ pc' = IF more THEN "load" ELSE PhaseAfter(graph, 1)
           /\ idx' = IF more THEN idx + 1 ELSE 1
  /\ UNCHANGED <<callStack, newInS>>
  /\ UNCHANGED <<entryGraph, m_SplitInfos, m_DLATB, memSize, m_MemAllocList, livesInfo, valMemSMap,
                 maxSize, minSize, ret, summary, errLog, runs>>

\* lines 394-409, one graph output
InsertStore ==
  /\ pc = "store"
  /\ \E us \in UseOrders(graph, graph.outputs[idx]) :
     LET v == graph.outputs[idx]
         last == LastUser(graph, us, Null)
         more == idx < Len(graph.outputs)
     IN \/ /\ inGraphList(graph, last)
           /\ graph' = StoreInserted(graph, v, last)
           /\ pc' = IF more THEN "store" ELSE "sum"
           /\ idx' = IF more THEN idx + 1 ELSE 1
        \/ \* insertBefore(nullptr): the process dies in the call
           /\ ~inGraphList(graph, last)
           /\ graph' = Create(graph, g_StoreKind, <<v>>, 0)
           /\ pc' = "crashedStore"
           /\ idx' = idx
        \/ \* insertBefore(nullptr): the call has no effect
           /\ ~inGraphList(graph, last)
           /\ graph' = Create(graph, g_StoreKind, <<v>>, 0)
           /\ pc' = IF more THEN "store" ELSE "sum"
           /\ idx' = IF more THEN idx + 1 ELSE 1
  /\ UNCHANGED <<callStack, newInS>>
  /\ UNCHANGED <<entryGraph, m_SplitInfos, m_DLATB, memSize, m_MemAllocList, livesInfo, valMemSMap,
                 maxSize, minSize, ret, summary, errLog, runs>>

\* lines 481-487: the maximum requirement
SumMax ==
  /\ pc = "sum"
  /\ maxSize' = MaxSizeOf(valMemSMap)
  /\ minSize' = 0
  /\ pc' = "alloc"
  /\ idx' = 1
  /\ UNCHANGED <<callStack, newInS>>
  /\ UNCHANGED <<entryGraph, m_SplitInfos, m_DLATB, memSize, graph, m_MemAllocList, livesInfo,
                 valMemSMap, ret, summary, errLog, runs>>

\* lines 491-509, one live interval
Place ==
  /\ pc = "alloc"
  /\ idx <= Len(livesInfo)
  /\ LET li == livesInfo[idx]
         required == Required(valMemSMap, li)
     IN \E conflicts \in GetUsedMemRegions(m_MemAllocList, li) :
          LET startAddr == ScanConflicts(conflicts, 0, required)
          IN /\ m_MemAllocList' =
                  Append(m_MemAllocList, MemAllocEntry(startAddr, required, li))
             /\ minSize' = NewMinSize(minSize, startAddr, required)
  /\ idx' = idx + 1
  /\ UNCHANGED <<callStack, newInS>>
  /\ UNCHANGED <<entryGraph, m_SplitInfos, m_DLATB, memSize, graph, pc, livesInfo, valMemSMap, maxSize,
                 ret, summary, errLog, runs>>

\* line 511: the peak exceeds the local memory
Overflows == minSize > m_DLATB.localMemSize

\* lines 511-518 when the peak fits: the summary line and the return
Finish ==
  /\ pc = "alloc"
  /\ idx > Len(livesInfo)
  /\ ~Overflows
  /\ summary' = [min |-> minSize, max |-> maxSize]
  /\ ret' = "kModuleNoChanged"
  /\ pc' = "idle"
  /\ UNCHANGED <<callStack, newInS>>
  /\ UNCHANGED <<entryGraph, m_SplitInfos, m_DLATB, memSize, graph, m_MemAllocList,
                 livesInfo, valMemSMap, idx, maxSize, minSize, errLog, runs>>

\* lines 511-512 and 339-341: tryToSplitGraph builds its SplitNodeManager
SplitBuild ==
  /\ pc = "alloc"
  /\ idx > Len(livesInfo)
  /\ Overflows
  /\ \/ /\ ~HasUnsupported(graph)
        /\ m_SplitInfos' = SplitNodeManager(graph)
        /\ pc' = "split"
     \/ \* assert(false && "Unsupport node.") stops the process
        /\ HasUnsupported(graph)
        /\ m_SplitInfos' = m_SplitInfos
        /\ pc' = "crashedSplit"
     \/ \* the assert is compiled out: the node gets a null descriptor
        /\ HasUnsupported(graph)
        /\ m_SplitInfos' = SplitNodeManager(graph)
        /\ pc' = "split"
  /\ idx' = 1
  /\ UNCHANGED <<callStack, newInS>>
  /\ UNCHANGED <<entryGraph, m_DLATB, memSize, graph, m_MemAllocList, livesInfo,
                 valMemSMap, maxSize, minSize, ret, summary, errLog, runs>>

\* lines 344-347, one graph output
SplitOutput ==
  /\ pc = "split"
  /\ idx <= Len(graph.outputs)
  /\ LET n == Producer(graph, graph.outputs[idx])
         res == splitNodeByFactor(graph, m_SplitInfos, n, 0, 2)
     IN \/ /\ n = Null
           /\ m_SplitInfos' = m_SplitInfos
           /\ pc' = pc
           /\ idx' = idx + 1
        \/ /\ n # Null
           /\ ~res.fault
           /\ m_SplitInfos' = res.infos
           /\ pc' = pc
           /\ idx' = idx + 1
        \/ \* a descriptor that is missing or null is used: the process dies
           /\ n # Null
           /\ res.fault
           /\ m_SplitInfos' = res.infos
           /\ pc' = "crashedSplit"
           /\ idx' = idx
        \/ \* a descriptor that is missing or null is used: the propagation
           \* from this output ends there and the run goes on
           /\ n # Null
           /\ res.fault
           /\ m_SplitInfos' = res.infos
           /\ pc' = pc
           /\ idx' = idx + 1
  /\ UNCHANGED <<callStack, newInS>>
  /\ UNCHANGED <<entryGraph, m_DLATB, memSize, graph, m_MemAllocList, livesInfo,
                 valMemSMap, maxSize, minSize, ret, summary, errLog, runs>>

\* lines 348 and 515-518: the manager is destroyed, the summary line, the return
SplitDone ==
  /\ pc = "split"
  /\ idx > Len(graph.outputs)
  /\ m_SplitInfos' = NoSplitInfos
  /\ summary' = [min |-> minSize, max |-> maxSize]
  /\ ret' = "kModuleNoChanged"
  /\ pc' = "idle"
  /\ UNCHANGED <<callStack, newInS>>
  /\ UNCHANGED <<entryGraph, m_DLATB, memSize, graph, m_MemAllocList, livesInfo,
                 valMemSMap, idx, maxSize, minSize, errLog, runs>>

---------------------------------------------------------------------------
(* Graphs for the tiling driver *)

\* most nodes of a graph handed to the tiling driver
TileNodes == 3

\* most inputs of a node (Conv and Gemm read three values)
MaxInputs == 3

RECURSIVE SeqProd(_)
SeqProd(s) == IF s = <<>> THEN 1 ELSE Head(s) * SeqProd(Tail(s))

\* the values no node makes, by shape: an image batch, a 3x3 kernel, a
\* signal batch, a 1-D kernel, a bias, a matrix, a volume and a 1x1x1 kernel
TilePool ==
  << <<2, 2, 4, 4>>, <<3, 2, 3, 3>>, <<2, 2, 4>>, <<3, 2, 3>>, <<3>>, <<2, 2>>,
     <<1, 1, 2, 2, 2>>, <<1, 1, 1, 1, 1>> >>
NumPool == Len(TilePool)
PoolData == {1, 3, 6, 7}
PoolWeights == {2, 4, 8}
PoolBias == 5
PoolMatrix == 6

\* kinds without a tiling rule
UnsupportedKinds == {"Softmax"}

NoTileGraph ==
  [kind |-> <<>>, ins |-> <<>>, outs |-> <<>>, order |-> <<>>,
   inputs |-> <<>>, outputs |-> <<>>,
   meta |-> [v \in 1..NumPool |-> v], dims |-> TilePool, attr |-> <<>>]

\* the graph with one more node at the end of the node list
AddNode(g, c) ==
  LET v == Len(g.dims) + 1
  IN [g EXCEPT !.kind = Append(@, c.kind), !.ins = Append(@, c.ins),
               !.outs = Append(@, <<v>>), !.order = Append(@, Len(g.kind) + 1),
               !.meta = Append(@, v), !.dims = Append(@, c.out),
               !.attr = Append(@, c.attr)]

\* output length of a window operator along one axis
WindowOut(d, k, s, b, e) == ((d + b + e - k) \div s) + 1

\* the values a node can read as data and as weights
DataOf(g) == PoolData \cup (NumPool + 1)..Len(g.dims)
WeightsOf(g) == PoolWeights \cup (NumPool + 1)..Len(g.dims)

ConvPads == {0, 1}

\* the nodes that can come next: every input is a value of the graph and
\* the output shape is the one shape inference gives
Candidates(g) ==
  LET dims == g.dims
      same(k) == {[kind |-> k, ins |-> <<d>>, attr |-> NoAttr, out |-> dims[d]]
                    : d \in DataOf(g)}
      pool == {[kind |-> "MaxPool", ins |-> <<d>>,
                attr |-> [NoAttr EXCEPT
                            !.kernel_shape = [j \in 1..Len(dims[d]) - 2 |-> 2],
                            !.strides = [j \in 1..Len(dims[d]) - 2 |-> 2],
                            !.padBegin = [j \in 1..Len(dims[d]) - 2 |-> 0],
                            !.padEnd = [j \in 1..Len(dims[d]) - 2 |-> 0]],
                out |-> [j \in 1..Len(dims[d]) |->
                           IF j <= 2 THEN dims[d][j]
                           ELSE WindowOut(dims[d][j], 2, 2, 0, 0)]]
                 : d \in {d \in DataOf(g) :
                            /\ Len(dims[d]) >= 3
                            /\ \A j \in 3..Len(dims[d]) : dims[d][j] >= 2}}
      conv == {[kind |-> "Conv",
                ins |-> IF t.b = 0 THEN <<t.d, t.w>> ELSE <<t.d, t.w, t.b>>,
                attr |-> [NoAttr EXCEPT
                            !.kernel_shape = [j \in 1..Len(dims[t.d]) - 2 |-> dims[t.w][j + 2]],
                            !.strides = [j \in 1..Len(dims[t.d]) - 2 |-> 1],
                            !.padBegin = [j \in 1..Len(dims[t.d]) - 2 |-> t.p],
                            !.padEnd = [j \in 1..Len(dims[t.d]) - 2 |-> t.p]],
                out |-> [j \in 1..Len(dims[t.d]) |->
                           IF j = 1 THEN dims[t.d][1]
                           ELSE IF j = 2 THEN dims[t.w][1]
                           ELSE WindowOut(dims[t.d][j], dims[t.w][j], 1, t.p, t.p)]]
                 : t \in {t \in [d : DataOf(g), w : WeightsOf(g),
                                 b : {0, PoolBias}, p : ConvPads] :
                            /\ Len(dims[t.d]) >= 3
                            /\ Len(dims[t.w]) = Len(dims[t.d])
                            /\ dims[t.w][2] = dims[t.d][2]
                            /\ \* the bias is read where its shape fits
                               t.b # 0 <=> dims[PoolBias] = <<dims[t.w][1]>>
                            /\ \A j \in 3..Len(dims[t.d]) :
                                 dims[t.d][j] + 2 * t.p >= dims[t.w][j]}}
      gemm == {[kind |-> "Gemm", ins |-> <<t.a, t.b, t.c>>,
                attr |-> [NoAttr EXCEPT !.transA = t.tA, !.transB = t.tB],
                out |-> dims[t.c]]
                 : t \in {t \in [a : DataOf(g), b : DataOf(g), c : DataOf(g),
                                 tA : BOOLEAN, tB : BOOLEAN] :
                            /\ \* both operands are stored the same way
                               t.tA = t.tB
                            /\ Len(dims[t.a]) = 2 /\ Len(dims[t.b]) = 2
                            /\ LET M == IF t.tA THEN dims[t.a][2] ELSE dims[t.a][1]
                                   K == IF t.tA THEN dims[t.a][1] ELSE dims[t.a][2]
                                   L == IF t.tB THEN dims[t.b][2] ELSE dims[t.b][1]
                                   N == IF t.tB THEN dims[t.b][1] ELSE dims[t.b][2]
                               IN K = L /\ dims[t.c] = <<M, N>>}}
      flat == {[kind |-> "Reshape", ins |-> <<d>>, attr |-> NoAttr,
                out |-> <<dims[d][1], SeqProd(Tail(dims[d]))>>]
                 : d \in {d \in DataOf(g) : Len(dims[d]) >= 3}}
      all == same("Relu") \cup UNION {same(k) : k \in UnsupportedKinds}
               \cup pool \cup conv \cup gemm \cup flat
  IN \* the graph stays in one piece: a node after the first reads a node
     {c \in all : g.kind # <<>> => \E v \in Range(c.ins) : v > NumPool}

RECURSIVE TileNodeLists(_)
TileNodeLists(n) ==
  IF n = 0 THEN {NoTileGraph}
  ELSE UNION {{AddNode(g, c) : c \in Candidates(g)} : g \in TileNodeLists(n - 1)}

\* the graph inputs are the pool values some node reads; the graph outputs
\* are the node outputs no node reads, after the matrix when asked for
WithInterface(g, passThrough) ==
  LET read == UNION {Range(g.ins[n]) : n \in 1..Len(g.kind)}
      made == (NumPool + 1)..Len(g.dims)
  IN [g EXCEPT !.inputs = SetToSeq((read \cap 1..NumPool)
                                      \cup (IF passThrough THEN {PoolMatrix} ELSE {})),
               !.outputs = (IF passThrough THEN <<PoolMatrix>> ELSE <<>>)
                             \o SetToSeq(made \ read)]

\* the graphs of at most max nodes
TileGraphs(max) ==
  UNION {{WithInterface(g, FALSE) : g \in TileNodeLists(n)}
           \cup {WithInterface(g, TRUE) : g \in TileNodeLists(1)}
         : n \in 1..max}

---------------------------------------------------------------------------
(* The tiling driver, one step of the propagation at a time *)

\* line 153: the next input of the node
NextInput(i) == i + 1

AfterOutputSame(i) == i

\* where the loop of lines 344-347 stands after the call for output i
\* returned
AfterOutput(i) == i + 1

\* line 341: SplitNodeManager is built for the graph
TileBuild ==
  /\ pc = "tileIdle"
  /\ \/ /\ ~HasUnsupported(graph)
        /\ m_SplitInfos' = SplitNodeManager(graph)
        /\ pc' = "tiling"
     \/ \* assert(false && "Unsupport node.") stops the process
        /\ HasUnsupported(graph)
        /\ m_SplitInfos' = m_SplitInfos
        /\ pc' = "crashedSplit"
     \/ \* the assert is compiled out: the node gets a null descriptor
        /\ HasUnsupported(graph)
        /\ m_SplitInfos' = SplitNodeManager(graph)
        /\ pc' = "tiling"
  /\ idx' = 1
  /\ UNCHANGED <<m_DLATB, memSize, graph, entryGraph, m_MemAllocList, livesInfo,
                 valMemSMap, maxSize, minSize, ret, summary, errLog, runs,
                 callStack, newInS>>

\* lines 344-346, 134-141 and 143-151: the call for one graph output, up
\* to the loop over the inputs of its producer
TileCall ==
  /\ pc = "tiling"
  /\ callStack = <<>>
  /\ idx <= Len(graph.outputs)
  /\ LET n == Producer(graph, graph.outputs[idx])
     IN \/ /\ n = Null
           /\ m_SplitInfos' = m_SplitInfos
           /\ callStack' = callStack
           /\ pc' = pc
           /\ idx' = AfterOutput(idx)
        \/ /\ n # Null
           /\ Usable(m_SplitInfos, n)
           /\ LET newS == FactoredSize(m_SplitInfos[n].m_OutSizes, 0, 2)
              IN /\ m_SplitInfos' =
                      [m_SplitInfos EXCEPT ![n] = useNewOutSize(@, newS)]
                 /\ callStack' = <<[n |-> n, i |-> 1, newOutSize |-> newS]>>
           /\ pc' = pc
           /\ idx' = idx
        \/ \* a null descriptor is used: the process dies
           /\ n # Null
           /\ ~Usable(m_SplitInfos, n)
           /\ m_SplitInfos' = m_SplitInfos
           /\ callStack' = callStack
           /\ pc' = "crashedSplit"
           /\ idx' = idx
        \/ \* a null descriptor is used: the call has no effect
           /\ n # Null
           /\ ~Usable(m_SplitInfos, n)
           /\ m_SplitInfos' = m_SplitInfos
           /\ callStack' = callStack
           /\ pc' = pc
           /\ idx' = AfterOutput(idx)
  /\ UNCHANGED <<m_DLATB, memSize, graph, entryGraph, m_MemAllocList, livesInfo,
                 valMemSMap, maxSize, minSize, ret, summary, errLog, runs, newInS>>

\* the frames below the running call, and the running call moved on to its
\* next input
Callers == SubSeq(callStack, 1, Len(callStack) - 1)
Advanced == [callStack[Len(callStack)] EXCEPT !.i = NextInput(@)]

\* lines 153-161: one turn of the loop over the inputs of the node of the
\* running call, or its return
TileStep ==
  /\ pc = "tiling"
  /\ callStack # <<>>
  /\ LET top == callStack[Len(callStack)]
         done == top.i > Len(graph.ins[top.n])
         child == IF done THEN Null ELSE Producer(graph, graph.ins[top.n][top.i])
         usable == child # Null /\ Usable(m_SplitInfos, child)
         asserts == usable /\ AssertFails(m_SplitInfos[child], top.i - 1)
         wild == usable /\ OutOfRange(graph, m_SplitInfos[child], top.i - 1)
         size == calNewInputSize(graph, m_SplitInfos[child], top.i - 1)
     IN \/ \* the loop is over: the call returns
           /\ done
           /\ callStack' = Callers
           /\ idx' = IF Callers = <<>> THEN AfterOutput(idx) ELSE idx
           /\ UNCHANGED <<m_SplitInfos, newInS, pc>>
        \/ \* line 154: the input has no producer
           /\ ~done
           /\ child = Null
           /\ callStack' = Append(Callers, Advanced)
           /\ UNCHANGED <<m_SplitInfos, newInS, pc, idx>>
        \/ \* lines 155-158: the producer gets the size its own rule gives
           \* and its inputs are visited (assert compiled out where it fails)
           /\ usable
           /\ ~wild
           /\ newInS' = size
           /\ m_SplitInfos' = [m_SplitInfos EXCEPT ![child] = useNewOutSize(@, size)]
           /\ callStack' = Append(Append(Callers, Advanced),
                                  [n |-> child, i |-> 1, newOutSize |-> size])
           /\ UNCHANGED <<pc, idx>>
        \/ \* a null descriptor, a failing assert or an access out of
           \* range: the process dies
           /\ ~done
           /\ child # Null
           /\ ~usable \/ asserts \/ wild
           /\ pc' = "crashedSplit"
           /\ UNCHANGED <<m_SplitInfos, newInS, callStack, idx>>
        \/ \* a null descriptor or an access out of range: the propagation
           \* from this output ends there
           /\ ~done
           /\ child # Null
           /\ ~usable \/ wild
           /\ callStack' = <<>>
           /\ idx' = AfterOutput(idx)
           /\ UNCHANGED <<m_SplitInfos, newInS, pc>>
  /\ UNCHANGED <<m_DLATB, memSize, graph, entryGraph, m_MemAllocList, livesInfo,
                 valMemSMap, maxSize, minSize, ret, summary, errLog, runs>>

\* line 348: tryToSplitGraph returns and its manager is destroyed
TileEnd ==
  /\ pc = "tiling"
  /\ callStack = <<>>
  /\ idx > Len(graph.outputs)
  /\ m_SplitInfos' = NoSplitInfos
  /\ pc' = "tiled"
  /\ UNCHANGED <<m_DLATB, memSize, graph, entryGraph, m_MemAllocList, livesInfo,
                 valMemSMap, idx, maxSize, minSize, ret, summary, errLog, runs,
                 callStack, newInS>>

InitAlloc == InitWith(AllocGraphs, AllocOracles)

NextAlloc ==
  \/ RunFail(AllocRuns)
  \/ Begin(LiveLists(MaxIntervals, MaxTime), AllocRuns)
  \/ InsertLoad
  \/ InsertStore
  \/ SumMax
  \/ Place
  \/ Finish
  \/ SplitBuild
  \/ SplitOutput
  \/ SplitDone

SpecAlloc == InitAlloc /\ [][NextAlloc]_vars

Init == InitWith(Graphs, GraphOracles)

Next ==
  \/ RunFail(MaxRuns)
  \/ Begin(GraphLiveLists, MaxRuns)
  \/ InsertLoad
  \/ InsertStore
  \/ SumMax
  \/ Place
  \/ Finish
  \/ SplitBuild
  \/ SplitOutput
  \/ SplitDone

Spec == Init /\ [][Next]_vars

\* repeated runs on the chain graphs
InitRuns == InitWith(AllocGraphs, GraphOracles)

NextRuns ==
  \/ RunFail(MaxRuns)
  \/ Begin(LiveLists(RunIntervals, MaxTime), MaxRuns)
  \/ InsertLoad
  \/ InsertStore
  \/ SumMax
  \/ Place
  \/ Finish
  \/ SplitBuild
  \/ SplitOutput
  \/ SplitDone

SpecRuns == InitRuns /\ [][NextRuns]_vars

\* tryToSplitGraph called on a graph as the frontend built it
InitTile ==
  /\ m_DLATB = [present |-> TRUE, localMemSize |-> LocalMemSize]
  /\ memSize = [v \in 1..NumValues |-> 0]
  /\ graph \in TileGraphs(TileNodes)
  /\ entryGraph = graph
  /\ m_MemAllocList = <<>>
  /\ m_SplitInfos = NoSplitInfos
  /\ pc = "tileIdle"
  /\ livesInfo = <<>>
  /\ valMemSMap = <<>>
  /\ idx = 0
  /\ maxSize = 0
  /\ minSize = 0
  /\ ret = "none"
  /\ summary = NoSummary
  /\ errLog = 0
  /\ runs = 0
  /\ callStack = <<>>
  /\ newInS = <<>>

NextTile ==
  \/ TileBuild
  \/ TileCall
  \/ TileStep
  \/ TileEnd

\* the driver is sequential code: a step that can be taken is taken
SpecTile == InitTile /\ [][NextTile]_vars /\ WF_vars(NextTile)

---------------------------------------------------------------------------
(* Properties *)

\* a run has returned through line 518
RunCompleted == pc = "idle" /\ ret = "kModuleNoChanged"

\* the byte ranges [start, start + size) of two entries have no byte in common
BytesDisjoint(a, b) ==
  \/ a.size = 0
  \/ b.size = 0
  \/ a.startAddr + a.size <= b.startAddr
  \/ b.startAddr + b.size <= a.startAddr

\* the largest startAddr + size over the entries, 0 for no entry
RECURSIVE MaxEnd(_)
MaxEnd(list) ==
  IF list = <<>> THEN 0
  ELSE Max(Head(list).startAddr + Head(list).size, MaxEnd(Tail(list)))

\* C1: any two distinct allocation entries whose live intervals intersect
\* have byte ranges with no byte in common.
C1_DisjointUnderOverlap ==
  \A i, j \in 1..Len(m_MemAllocList) :
    (i # j /\ Intersect(m_MemAllocList[i].liveIntrvl, m_MemAllocList[j].liveIntrvl))
      => BytesDisjoint(m_MemAllocList[i], m_MemAllocList[j])

\* C2: every allocation entry is at least as large as the size the size
\* oracle reports for its value.
C2_SufficientSize ==
  \A k \in 1..Len(m_MemAllocList) :
    m_MemAllocList[k].size >=
      ValueMemorySize(graph, memSize, m_MemAllocList[k].liveIntrvl.value)

\* C3: when a run has returned, the reported Min is the largest
\* startAddr + size over the entries, the sum taken without wrap-around.
C3_PeakIsMaxEnd ==
  RunCompleted => summary.min = MaxEnd(m_MemAllocList)

\* C4: the placement of the next interval is the same for every order in
\* which the sort may leave conflict regions of equal start address.
C4_PlacementIgnoresTieOrder ==
  (pc = "alloc" /\ idx <= Len(livesInfo)) =>
    LET li == livesInfo[idx]
        required == Required(valMemSMap, li)
    IN \A c1, c2 \in GetUsedMemRegions(m_MemAllocList, li) :
         ScanConflicts(c1, 0, required) = ScanConflicts(c2, 0, required)

\* C5: an entry whose live interval intersects that of no earlier entry is
\* at address 0; and when a run has placed exactly two values of the same
\* size with disjoint live intervals, both are at 0 and the reported Min is
\* that size.
C5_SharingLaw ==
  /\ \A k \in 1..Len(m_MemAllocList) :
       (\A j \in 1..(k - 1) :
          ~Intersect(m_MemAllocList[j].liveIntrvl, m_MemAllocList[k].liveIntrvl))
         => m_MemAllocList[k].startAddr = 0
  /\ (/\ RunCompleted
      /\ Len(livesInfo) = 2
      /\ memSize[livesInfo[1].value] = memSize[livesInfo[2].value]
      /\ ~Intersect(livesInfo[1], livesInfo[2]))
       => /\ m_MemAllocList[1].startAddr = 0
          /\ m_MemAllocList[2].startAddr = 0
          /\ summary.min = memSize[livesInfo[1].value]

\* InsertLoadStoreNode has returned in the current run
InsertionDone == pc \in {"sum", "alloc", "split", "crashedSplit"} \/ RunCompleted

\* the process died inside InsertLoadStoreNode
InsertionFailed == pc \in {"crashedLoad", "crashedStore"}

UsedAtEntry(v) == Uses(entryGraph, v) # <<>>

\* the Store nodes of the graph's list that read v
StoresOf(g, v) ==
  {n \in Range(g.order) : g.kind[n] = g_StoreKind /\ v \in Range(g.ins[n])}

\* C6: in the first run on a graph whose inputs and outputs all have a
\* use, insertion returns, and then every use left of a graph input is by a
\* Load node and every graph output is read by exactly one Store node.
C6_LoadStorePlacement ==
  (/\ runs = 1
   /\ \A v \in Range(entryGraph.inputs) \cup Range(entryGraph.outputs) :
        UsedAtEntry(v))
    => /\ ~InsertionFailed
       /\ InsertionDone =>
            /\ \A v \in Range(entryGraph.inputs) :
                 \A u \in Range(Uses(graph, v)) : graph.kind[u] = g_LoadKind
            /\ \A v \in Range(entryGraph.outputs) :
                 Cardinality(StoresOf(graph, v)) = 1

\* C7: when the second run has returned, the graph holds as many Load
\* nodes and as many Store nodes as when that run began.
C7_RunTwiceAddsNothing ==
  (runs = 2 /\ RunCompleted) =>
    /\ Cardinality(NodesOfKind(graph, g_LoadKind)) =
         Cardinality(NodesOfKind(entryGraph, g_LoadKind))
    /\ Cardinality(NodesOfKind(graph, g_StoreKind)) =
         Cardinality(NodesOfKind(entryGraph, g_StoreKind))

\* C8: every step of a pass that has no backend handle is a failed run: it
\* returns kPassFailure, logs one error line, and leaves the graph and the
\* allocation list as they were.
C8_NoBackendNoMutation ==
  [][m_DLATB = NullBackend =>
       /\ ret' = "kPassFailure"
       /\ errLog' = errLog + 1
       /\ graph' = graph
       /\ m_MemAllocList' = m_MemAllocList]_vars

C8_Witness ==
  /\ m_DLATB = NullBackend
  /\ ret = "kPassFailure"
  /\ runs = 2
  /\ graph.inputs # <<>>
  /\ graph.outputs # <<>>

\* the k-th entry is the k-th interval of the current run, for k up to n
EntriesMatch(n) ==
  /\ Len(m_MemAllocList) = n
  /\ \A k \in 1..n : m_MemAllocList[k].liveIntrvl = livesInfo[k]

\* C9: when a run has returned, the allocation list holds one entry per
\* live interval of that run, in the supplied order, and nothing else; while
\* the allocator loop runs it holds the entries of the intervals done so far.
C9_ListIsLastRun ==
  /\ RunCompleted => EntriesMatch(Len(livesInfo))
  /\ pc = "alloc" => EntriesMatch(idx - 1)

C9_Witness ==
  /\ runs = 2
  /\ RunCompleted
  /\ Len(livesInfo) = 2
  /\ livesInfo[1].start > livesInfo[2].start
  /\ NodesOfKind(graph, g_StoreKind) # {}

\* created nodes of a kind, in a list or not
CreatedOfKind(g, kind) == {n \in 1..Len(g.kind) : g.kind[n] = kind}

\* C10: in the first run no Load is created for a graph input that has no
\* use and no Store for a graph output that has no use, and insertion does
\* not fail on a graph that has such a value.
C10_NoUseSkipped ==
  runs = 1 =>
    /\ Cardinality(CreatedOfKind(graph, g_LoadKind)) <=
         Cardinality({v \in Range(entryGraph.inputs) : UsedAtEntry(v)})
    /\ \A v \in Range(entryGraph.outputs) :
         ~UsedAtEntry(v) =>
           ~\E n \in CreatedOfKind(graph, g_StoreKind) : v \in Range(graph.ins[n])
    /\ (\E v \in Range(entryGraph.inputs) \cup Range(entryGraph.outputs) :
          ~UsedAtEntry(v))
         => ~InsertionFailed

\* no descriptor of the table holds a new shape
NoNewShape ==
  \A n \in DOMAIN m_SplitInfos :
    m_SplitInfos[n].m_NewOutSizes = m_SplitInfos[n].m_OutSizes

\* C11: when the graph holds a node of a kind the split model has no rule
\* for, the process does not stop inside the tiling driver and no descriptor
\* is given a new shape.
C11_UnsupportedAbortsTiling ==
  HasUnsupported(graph) => (pc # "crashedSplit" /\ NoNewShape)

\* ceil(a / b)
CeilDiv(a, b) == (a + b - 1) \div b

\* C13: when a run whose peak exceeded the local memory has returned, the
\* shape the graph stores for every graph output made by a node has its
\* first dimension halved, rounded up.
C13_TileShapesReachGraph ==
  (RunCompleted /\ Overflows) =>
    \A i \in 1..Len(graph.outputs) :
      LET v == graph.outputs[i]
      IN Producer(graph, v) # Null =>
           graph.dims[v][1] = CeilDiv(entryGraph.dims[v][1], 2)

\* the sum of the oracle's sizes over the values the gather visited
OracleSum(g, oracle) ==
  LET vs == SetToSeq(VisitedValues(g))
  IN SeqSum([k \in 1..Len(vs) |-> ValueMemorySize(g, oracle, vs[k])])

\* C14: the Max a finished run reports is the sum, without wrap-around, of
\* the oracle sizes of the distinct values of the non-undefined nodes.
C14_MaxIsOracleSum ==
  RunCompleted => summary.max = OracleSum(entryGraph, memSize)

\* C15: the Max a finished run reports is at least the Min it reports.
C15_MaxBoundsMin ==
  RunCompleted => summary.min <= summary.max

\* the entries placed before the k-th whose live interval meets the k-th's
ConflictsOf(list, k) ==
  {j \in 1..(k - 1) : Intersect(list[j].liveIntrvl, list[k].liveIntrvl)}

\* address a is free for the k-th entry: no conflicting entry's bytes meet
\* [a, a + size)
FreeAt(list, k, a) ==
  \A j \in ConflictsOf(list, k) :
    BytesDisjoint([startAddr |-> a, size |-> list[k].size], list[j])

\* the smallest free address: 0 or the end of a conflicting entry
FirstFit(list, k) ==
  LET cand == {0} \cup {list[j].startAddr + list[j].size : j \in ConflictsOf(list, k)}
      free == {a \in cand : FreeAt(list, k, a)}
  IN CHOOSE a \in free : \A b \in free : a <= b

\* C18: every entry sits at the smallest address at which its bytes meet
\* the bytes of no earlier entry live together with it.
C18_PlacementIsFirstFit ==
  \A k \in 1..Len(m_MemAllocList) :
    m_MemAllocList[k].startAddr = FirstFit(m_MemAllocList, k)

\* the node a step of the insertion loops has created
NewNode == Len(graph'.kind)

\* the step has spliced a node into the graph's list
Spliced == Len(graph'.order) = Len(graph.order) + 1

\* C19: the Load a step splices for a graph input stands before every node
\* that used the input, each of which now reads the Load's output; the Store
\* a step splices for a graph output stands immediately before the user of
\* the output that is last in program order.
C19_LoadFirstStoreLast ==
  [][/\ (pc = "load" /\ Spliced) =>
          \A u \in Range(Uses(graph, graph.inputs[idx])) :
            /\ isBefore(graph', NewNode, u)
            /\ graph'.outs[NewNode][1] \in Range(graph'.ins[u])
            /\ graph.inputs[idx] \notin Range(graph'.ins[u])
     /\ (pc = "store" /\ Spliced) =>
          LET users == Range(Uses(graph, graph.outputs[idx]))
              next == graph'.order[Pos(graph', NewNode) + 1]
          IN /\ next \in users
             /\ \A u \in users : ~isBefore(graph, next, u)]_vars

\* a first run whose graph had an input with two users and an output with
\* a user, after the Load and the Store for them were spliced
C19_Witness ==
  /\ runs = 1
  /\ InsertionDone
  /\ \E i \in 1..Len(entryGraph.inputs) :
       Len(Uses(entryGraph, entryGraph.inputs[i])) >= 2
  /\ \E i \in 1..Len(entryGraph.outputs) :
       /\ Uses(entryGraph, entryGraph.outputs[i]) # <<>>
       /\ StoresOf(graph, entryGraph.outputs[i]) # {}
  /\ NodesOfKind(graph, g_LoadKind) # {}

---------------------------------------------------------------------------
(* Termination of the tiling driver *)

\* the nodes that read the output of node p
ConsumersOf(g, p) ==
  {n \in 1..Len(g.kind) : \E v \in Range(g.outs[p]) : v \in Range(g.ins[n])}

\* the inputs of node n that a node makes
ProducedInputs(g, n) ==
  {i \in 1..Len(g.ins[n]) : Producer(g, g.ins[n][i]) # Null}

\* C12: the tiling driver, once it works on the graph outputs, comes to
\* its end (or the process has died in it): the backward propagation
\* from every graph output finishes, whatever the fan-in of the nodes and
\* however producers are shared between consumers.
C12_TilingTerminates == (pc = "tiling") ~> (pc \in {"tiled", "crashedSplit"})

\* the driver returned on a graph of supported nodes with two outputs, a
\* node with two inputs that nodes make and a producer two nodes read
C12_Witness ==
  /\ pc = "tiled"
  /\ ~HasUnsupported(graph)
  /\ Len(graph.outputs) >= 2
  /\ \E n \in 1..Len(graph.kind) : Cardinality(ProducedInputs(graph, n)) >= 2
  /\ \E p \in 1..Len(graph.kind) : Cardinality(ConsumersOf(graph, p)) >= 2

---------------------------------------------------------------------------
(* What the propagation leaves in the descriptors *)

\* the call of splitNodeBySize that is about to return
Returning ==
  /\ pc = "tiling"
  /\ callStack # <<>>
  /\ callStack[Len(callStack)].i > Len(graph.ins[callStack[Len(callStack)].n])

\* no value of the graph is read twice: no producer is reached over two
\* paths and no later call overwrites what an earlier one applied
ReadOnce(g) ==
  \A v \in 1..Len(g.dims) :
    Cardinality({u \in [n : 1..Len(g.kind), i : 1..MaxInputs] :
                   u.i <= Len(g.ins[u.n]) /\ g.ins[u.n][u.i] = v}) <= 1

\* C16: when splitNodeBySize(n, S, true) returns, the current output shape
\* of n is S, and the current output shape of the producer of every input
\* i of n is the input tile shape the split rule of n gives for input i
\* and output shape S (stated where no value is read twice and the rule of
\* n is defined for input i).
C16_ProducersGetParentTile ==
  (Returning /\ ReadOnce(graph)) =>
    LET top == callStack[Len(callStack)]
        ns == m_SplitInfos[top.n]
    IN /\ ns.m_NewOutSizes = top.newOutSize
       /\ \A i \in ProducedInputs(graph, top.n) :
            LET p == Producer(graph, graph.ins[top.n][i])
            IN (/\ Usable(m_SplitInfos, p)
                /\ ~AssertFails(ns, i - 1)
                /\ ~OutOfRange(graph, ns, i - 1))
                 => m_SplitInfos[p].m_NewOutSizes = calNewInputSize(graph, ns, i - 1)

\* C17: while the tiling driver runs, the current output shape of every
\* descriptor has the rank of its original output shape and no dimension
\* above the original one.
C17_TileWithinOriginal ==
  \A n \in DOMAIN m_SplitInfos :
    Usable(m_SplitInfos, n) =>
      LET ns == m_SplitInfos[n]
      IN /\ Len(ns.m_NewOutSizes) = Len(ns.m_OutSizes)
         /\ \A j \in 1..Len(ns.m_OutSizes) : ns.m_NewOutSizes[j] <= ns.m_OutSizes[j]

\* the x tile of a Conv node: the batch, the channels of x, and one length
\* per spatial axis of x
ConvTileX(g, ns) ==
  LET xDim == InputSizes(g, ns, 0)
  IN <<ns.m_NewOutSizes[1], xDim[2]>>
       \o [i \in 1..Len(xDim) - 2 |-> SpatialIn(ns, i - 1)]

\* C20: for a Conv node with current output shape [N, M, O1..On] the rule
\* gives [N, x_dim[1], (Oi-1)*si - bi - ei + ki per spatial axis] for input
\* 0, [M, w_dim[1], ..] for input 1 and [M] for input 2, every dimension
\* positive.
C20_ConvTileShapes ==
  \A n \in DOMAIN m_SplitInfos :
    LET ns == m_SplitInfos[n]
        Positive(shape) == \A j \in 1..Len(shape) : shape[j] > 0
    IN (/\ ns.rule = "SplitConv"
        /\ Len(ns.m_NewOutSizes) >= Len(InputSizes(graph, ns, 0)))
         => /\ calNewInputSize(graph, ns, 0) = ConvTileX(graph, ns)
            /\ calNewInputSize(graph, ns, 1)
                 = <<ns.m_NewOutSizes[2]>> \o Tail(InputSizes(graph, ns, 1))
            /\ calNewInputSize(graph, ns, 2) = <<ns.m_NewOutSizes[2]>>
            /\ \A i \in 0..2 : Positive(calNewInputSize(graph, ns, i))

---------------------------------------------------------------------------
(* Placement when the intervals come in ascending order of start *)

\* the liveness result of the run is in ascending order of start
AscendingStarts ==
  \A i, j \in 1..Len(livesInfo) : i < j => livesInfo[i].start <= livesInfo[j].start

\* the gathered size of the value of every interval is strictly positive
PositiveSizes ==
  \A k \in 1..Len(livesInfo) : MapSize(valMemSMap, livesInfo[k].value) > 0

\* the conflict regions the k-th placement looked at have pairwise no byte
\* in common
ConflictsDisjoint(list, k) ==
  \A i, j \in ConflictsOf(list, k) : i # j => BytesDisjoint(list[i], list[j])

\* C21: when the live intervals are supplied in ascending order of start
\* and every value's size is strictly positive, the conflict regions of
\* every placement are pairwise address-disjoint, and after every
\* placement no two entries with intersecting live intervals overlap in
\* address.
C21_AscendingPlacementDisjoint ==
  (pc = "alloc" /\ AscendingStarts /\ PositiveSizes) =>
    /\ \A k \in 1..Len(m_MemAllocList) : ConflictsDisjoint(m_MemAllocList, k)
    /\ \A i, j \in 1..Len(m_MemAllocList) :
         (i # j /\ Intersect(m_MemAllocList[i].liveIntrvl, m_MemAllocList[j].liveIntrvl))
           => BytesDisjoint(m_MemAllocList[i], m_MemAllocList[j])

\* no size is cut by the conversion to `unsigned` and no entry ends above
\* the largest `unsigned`
WithinAddressRange ==
  /\ \A k \in 1..Len(livesInfo) : MapSize(valMemSMap, livesInfo[k].value) < UIntMod
  /\ \A k \in 1..Len(m_MemAllocList) :
       m_MemAllocList[k].startAddr + m_MemAllocList[k].size <= UIntMod

\* the same statement for the runs whose addresses stay in range
AscendingPlacementDisjointInRange ==
  WithinAddressRange => C21_AscendingPlacementDisjoint

====
